---- MODULE Spec2Model ----
(***************************************************************************)
(* Model of the two pieces of logic of rivena-v4 that sit at the network   *)
(* boundary:                                                               *)
(*   - the client auth cache manager (src/src/auth/client/auth-service.ts), *)
(*     specification Spec;                                                 *)
(*   - the CORS middleware for Bun.serve (src/unnamed/part_001, imported    *)
(*     as ./auth/bun-cors.ts), specification SpecCors.                      *)
(* All strings are TLA+ strings; TLC treats them as sequences of           *)
(* characters, so Len and SubSeq model String.length and substring search. *)
(***************************************************************************)
EXTENDS Integers, Sequences, FiniteSets, Bags, TLC

VARIABLES
  now,            \* Date.now(), in milliseconds
  cachedAuth,     \* AuthService.cachedAuth: Null or [jwt, user, expiresAt]
  refreshTimeout, \* AuthService.refreshTimeout: NoTimer or a timer handle
  timers,         \* timers armed by setTimeout and neither fired nor cleared
  inflight,       \* bag of refreshAndCacheToken calls suspended at `await fetch`
  resume,         \* handleSessionChange continuation queued after its await
  storage,        \* localStorage['cached_auth']: Absent, Garbage or a JSON text
  store,          \* useAuthStore state
  mounted,        \* App's mount effect has run for this page load
  emitted,        \* 'auth:change' events dispatched by the last step
  fetchCalls,     \* fetch('/api/auth/token') calls made by the last step
  lastOp,         \* the operation the last step executed
  corsConfig,     \* the CORSConfig given to cors()
  regexLastIndex, \* lastIndex of the RegExp among the policy's origin rules
  corsRequest,    \* the request the wrapper is processing
  corsPhase,      \* "idle", "awaiting", "responded" or "threw"
  corsDownstream, \* what the downstream handler produced for corsRequest
  corsResponse,   \* what the wrapper returned: a response or a rejection
  handlerCalls    \* invocations of the downstream handler for corsRequest

authVars == <<now, cachedAuth, refreshTimeout, timers, inflight, resume, storage,
              store, mounted, emitted, fetchCalls, lastOp>>
corsVars == <<corsConfig, regexLastIndex, corsRequest, corsPhase, corsDownstream, corsResponse,
              handlerCalls>>
vars == <<authVars, corsVars>>

(***************************************************************************)
(* Bounds of the model.                                                    *)
(***************************************************************************)
MaxTicks == 3       \* the clock advances at most this many ticks
MaxExpK == 3        \* token exp claims range over 0 .. MaxExpK * 300 seconds
MaxInFlight == 2    \* token fetches in flight at the same time
MaxTimers == 3      \* timer handles the model distinguishes

(***************************************************************************)
(* Values.                                                                 *)
(***************************************************************************)
Null == [null |-> TRUE]
NoTimer == 0
NoSched == 0 - 1
Absent == [absent |-> TRUE]
Garbage == [garbage |-> TRUE]

FiveMinutes == 5 * 60 * 1000
TickMs == FiveMinutes
ExpSecs == {k * 300 : k \in 0..MaxExpK}

UserIds == {"u1"}
\* A signed token, identified with the claims it carries.
Tokens == {[claims |-> [id |-> u, email |-> u \o "@x.io", name |-> "N-" \o u,
                        exp |-> e, iat |-> 0]] : u \in UserIds, e \in ExpSecs}
\* session.data.user as delivered by the session subscription
SessionUsers == {[id |-> u, email |-> u \o "@x.io", name |-> "N-" \o u,
                  emailVerified |-> TRUE] : u \in UserIds}

jwtDecode(token) == token.claims

(***************************************************************************)
(* JSON.stringify / JSON.parse of a CachedAuth record: the text is the     *)
(* ordered list of the object's own properties.                            *)
(***************************************************************************)
JSONStringify(auth) ==
  [text |-> << <<"jwt", auth.jwt>>,
               <<"user", << <<"id", auth.user.id>>, <<"email", auth.user.email>>,
                            <<"name", auth.user.name>> >> >>,
               <<"expiresAt", auth.expiresAt>> >>]

Prop(pairs, key) == LET i == CHOOSE j \in 1..Len(pairs) : pairs[j][1] = key
                    IN pairs[i][2]

JSONParse(json) ==
  LET u == Prop(json.text, "user")
  IN [jwt |-> Prop(json.text, "jwt"),
      user |-> [id |-> Prop(u, "id"), email |-> Prop(u, "email"),
                name |-> Prop(u, "name")],
      expiresAt |-> Prop(json.text, "expiresAt")]

(***************************************************************************)
(* The external store (./auth-store, a zustand store).                     *)
(***************************************************************************)
StoreInit == [user |-> Null, token |-> Null, isAuthenticated |-> FALSE,
              isLoading |-> FALSE]
setUser(s, user) == [s EXCEPT !.user = user]
setToken(s, token) == [s EXCEPT !.token = token]
setAuthenticated(s, b) == [s EXCEPT !.isAuthenticated = b]
setLoading(s, b) == [s EXCEPT !.isLoading = b]
logout(s) == [s EXCEPT !.user = Null, !.token = Null, !.isAuthenticated = FALSE]

(***************************************************************************)
(* The manager's operations, as functions of the world w they act on and   *)
(* the time t at which they run.                                           *)
(***************************************************************************)
World == [cachedAuth |-> cachedAuth, refreshTimeout |-> refreshTimeout,
          timers |-> timers, inflight |-> inflight, storage |-> storage,
          store |-> store, emitted |-> <<>>, fetchCalls |-> 0]

\* A page load: nothing in memory, no timer, no fetch; localStorage persists.
FreshWorld(stored) ==
  [cachedAuth |-> Null, refreshTimeout |-> NoTimer, timers |-> {},
   inflight |-> EmptyBag, storage |-> stored, store |-> StoreInit,
   emitted |-> <<>>, fetchCalls |-> 0]

TimerIds(w) == {x.id : x \in w.timers}

\* setTimeout returns a handle that is not in use
setTimeout(w, delay, t) ==
  LET id == CHOOSE i \in 1..(MaxTimers + 2) :
              /\ i \notin TimerIds(w) \cup {w.refreshTimeout}
              /\ \A j \in 1..(i - 1) : j \in TimerIds(w) \cup {w.refreshTimeout}
  IN [w EXCEPT !.timers = @ \cup {[id |-> id, due |-> t + delay]},
               !.refreshTimeout = id]

clearTimeout(w, id) == [w EXCEPT !.timers = {x \in @ : x.id # id}]

emitAuthChange(w, isAuth) == [w EXCEPT !.emitted = Append(@, isAuth)]

refreshAndCacheTokenStartUnlessInFlight(w, origin, user) ==
  IF w.inflight # EmptyBag THEN w
  ELSE [w EXCEPT !.inflight = @ (+) SetToBag({[origin |-> origin, user |-> user]}),
                 !.fetchCalls = @ + 1]

\* refreshAndCacheToken up to its first suspension, `await fetch(...)`
refreshAndCacheTokenStart(w, origin, user) ==
  [w EXCEPT !.inflight = @ (+) SetToBag({[origin |-> origin, user |-> user]}),
            !.fetchCalls = @ + 1]

scheduleTokenRefreshNoClear(w, expiresAt, t) ==
  LET refreshTime == expiresAt - t - FiveMinutes
  IN IF refreshTime > 0
     THEN setTimeout(w, refreshTime, t)
     ELSE refreshAndCacheTokenStart(w, "schedule", Null)

scheduleTokenRefreshArmsAlways(w, expiresAt, t) ==
  LET w1 == IF w.refreshTimeout # NoTimer
            THEN clearTimeout(w, w.refreshTimeout) ELSE w
  IN setTimeout(w1, expiresAt - t - FiveMinutes, t)

scheduleTokenRefreshNoMargin(w, expiresAt, t) ==
  LET w1 == IF w.refreshTimeout # NoTimer
            THEN clearTimeout(w, w.refreshTimeout) ELSE w
      refreshTime == expiresAt - t
  IN IF refreshTime > 0
     THEN setTimeout(w1, refreshTime, t)
     ELSE refreshAndCacheTokenStart(w1, "schedule", Null)

scheduleTokenRefresh(w, expiresAt, t) ==
  LET w1 == IF w.refreshTimeout # NoTimer
            THEN clearTimeout(w, w.refreshTimeout) ELSE w
      refreshTime == expiresAt - t - FiveMinutes
  IN IF refreshTime > 0
     THEN setTimeout(w1, refreshTime, t)
     ELSE refreshAndCacheTokenStart(w1, "schedule", Null)

refreshAndCacheTokenSuccessNoStoreToken(w, token, t) ==
  LET decoded == jwtDecode(token)
      expiresAt == decoded.exp * 1000
      auth == [jwt |-> token,
               user |-> [id |-> decoded.id, email |-> decoded.email,
                         name |-> decoded.name],
               expiresAt |-> expiresAt]
      w1 == [w EXCEPT !.cachedAuth = auth, !.storage = JSONStringify(auth)]
      w2 == scheduleTokenRefresh(w1, expiresAt, t)
  IN emitAuthChange(w2, TRUE)

\* refreshAndCacheToken from the resolution of the fetch to its end, when the
\* response is ok and the token decodes
refreshAndCacheTokenSuccess(w, token, t) ==
  LET decoded == jwtDecode(token)
      expiresAt == decoded.exp * 1000
      auth == [jwt |-> token,
               user |-> [id |-> decoded.id, email |-> decoded.email,
                         name |-> decoded.name],
               expiresAt |-> expiresAt]
      w1 == [w EXCEPT !.cachedAuth = auth, !.storage = JSONStringify(auth)]
      w2 == scheduleTokenRefresh(w1, expiresAt, t)
      w3 == [w2 EXCEPT !.store = setToken(@, token)]
  IN emitAuthChange(w3, TRUE)

\* ... and when the fetch rejects, the response is not ok, the body is not
\* JSON or the token does not decode: the catch block only logs
FailureKinds == {"reject", "notok", "badjson", "baddecode"}
refreshAndCacheTokenFailureEvicts(w, kind) ==
  [w EXCEPT !.cachedAuth = Null, !.storage = Absent]

refreshAndCacheTokenFailure(w, kind) == w

clearCachedAuthMemoryOnly(w) ==
  LET w1 == [w EXCEPT !.cachedAuth = Null, !.store = logout(@)]
  IN IF w1.refreshTimeout # NoTimer
     THEN [clearTimeout(w1, w1.refreshTimeout) EXCEPT !.refreshTimeout = NoTimer]
     ELSE w1

clearCachedAuthKeepsTimer(w) ==
  [w EXCEPT !.cachedAuth = Null, !.storage = Absent, !.store = logout(@)]

clearCachedAuth(w) ==
  LET w1 == [w EXCEPT !.cachedAuth = Null, !.storage = Absent,
                      !.store = logout(@)]
  IN IF w1.refreshTimeout # NoTimer
     THEN [clearTimeout(w1, w1.refreshTimeout) EXCEPT !.refreshTimeout = NoTimer]
     ELSE w1

loadCachedAuthInclusive(w, t) ==
  IF w.storage = Absent THEN w
  ELSE IF w.storage = Garbage THEN [w EXCEPT !.storage = Absent]
  ELSE LET auth == JSONParse(w.storage)
       IN IF auth.expiresAt >= t
          THEN scheduleTokenRefresh([w EXCEPT !.cachedAuth = auth],
                                    auth.expiresAt, t)
          ELSE [w EXCEPT !.storage = Absent]

loadCachedAuthNoSchedule(w, t) ==
  IF w.storage = Absent THEN w
  ELSE IF w.storage = Garbage THEN [w EXCEPT !.storage = Absent]
  ELSE LET auth == JSONParse(w.storage)
       IN IF auth.expiresAt > t
          THEN [w EXCEPT !.cachedAuth = auth]
          ELSE [w EXCEPT !.storage = Absent]

loadCachedAuthKeepsExpired(w, t) ==
  IF w.storage = Absent THEN w
  ELSE IF w.storage = Garbage THEN [w EXCEPT !.storage = Absent]
  ELSE LET auth == JSONParse(w.storage)
       IN IF auth.expiresAt > t
          THEN scheduleTokenRefresh([w EXCEPT !.cachedAuth = auth],
                                    auth.expiresAt, t)
          ELSE w

loadCachedAuth(w, t) ==
  IF w.storage = Absent THEN w
  ELSE IF w.storage = Garbage THEN [w EXCEPT !.storage = Absent]
  ELSE LET auth == JSONParse(w.storage)
       IN IF auth.expiresAt > t
          THEN scheduleTokenRefresh([w EXCEPT !.cachedAuth = auth],
                                    auth.expiresAt, t)
          ELSE [w EXCEPT !.storage = Absent]

constructor(stored, t) ==
  LET w == loadCachedAuth(FreshWorld(stored), t)
  IN IF w.cachedAuth # Null THEN emitAuthChange(w, TRUE) ELSE w

\* the expiry handed to scheduleTokenRefresh by a load of `stored` at t
LoadSched(stored, t) ==
  IF stored \in {Absent, Garbage} THEN NoSched
  ELSE IF JSONParse(stored).expiresAt > t THEN JSONParse(stored).expiresAt
  ELSE NoSched

getCurrentUserCacheFirst(w) ==
  IF w.cachedAuth # Null THEN w.cachedAuth.user
  ELSE IF w.store.user # Null THEN w.store.user ELSE Null

getCurrentUser(w) ==
  IF w.store.user # Null THEN w.store.user
  ELSE IF w.cachedAuth # Null THEN w.cachedAuth.user ELSE Null

getAuthToken(w) ==
  IF w.store.token # Null THEN w.store.token
  ELSE IF w.cachedAuth # Null THEN w.cachedAuth.jwt ELSE Null

isAuthenticated(w) ==
  IF w.store.isAuthenticated THEN TRUE ELSE w.cachedAuth # Null

(***************************************************************************)
(* Session signals delivered by useSession.subscribe.                      *)
(***************************************************************************)
Sessions ==
  {[kind |-> "null", user |-> Null, isPending |-> FALSE]}
  \cup {[kind |-> "user", user |-> u, isPending |-> p] :
          u \in SessionUsers, p \in BOOLEAN}
  \cup {[kind |-> "datanull", user |-> Null, isPending |-> p] : p \in BOOLEAN}

HasUser(session) == session.kind = "user"
DefinitiveLogout(session) == session.kind = "datanull" /\ ~session.isPending

handleSessionChangeEvictsWhilePending(w, session) ==
  IF HasUser(session)
  THEN refreshAndCacheTokenStart(w, "session", session.user)
  ELSE IF session.kind = "datanull"
  THEN LET w1 == emitAuthChange(clearCachedAuth(w), FALSE)
       IN [w1 EXCEPT !.store = setLoading(logout(@), FALSE)]
  ELSE [w EXCEPT !.store = setLoading(@, session.isPending)]

\* handleSessionChange up to its end or to its `await`
handleSessionChange(w, session) ==
  IF HasUser(session)
  THEN refreshAndCacheTokenStart(w, "session", session.user)
  ELSE IF DefinitiveLogout(session)
  THEN LET w1 == emitAuthChange(clearCachedAuth(w), FALSE)
       IN [w1 EXCEPT !.store = setLoading(logout(@), FALSE)]
  ELSE [w EXCEPT !.store = setLoading(@, session.isPending)]

\* handleSessionChange after `await this.refreshAndCacheToken()`
handleSessionChangeResume(w, user) ==
  [w EXCEPT !.store = setLoading(setAuthenticated(setUser(@, user), TRUE), FALSE)]

\* App's mount effect
appMountEffect(w) ==
  LET s1 == setLoading(w.store, TRUE)
      user == getCurrentUser([w EXCEPT !.store = s1])
      token == getAuthToken([w EXCEPT !.store = s1])
      s2 == IF user # Null /\ token # Null
            THEN setAuthenticated(setToken(setUser(s1, user), token), TRUE)
            ELSE s1
  IN [w EXCEPT !.store = setLoading(s2, FALSE)]

(***************************************************************************)
(* The auth cache manager as a state machine.  JavaScript runs one task at *)
(* a time: every action below is one task, or the part of an async         *)
(* function between two suspensions.  A continuation queued as a microtask *)
(* (resume) runs before any other task.                                    *)
(***************************************************************************)
\* what lastOp records of a step: the operation, the expiry it handed to
\* scheduleTokenRefresh (NoSched if none), the timer that fired (NoTimer if
\* none), whether the step before was a pending session signal, whether it
\* repeats the scheduleTokenRefresh call of the step before, whether a cached
\* record existed when it began, whether a definitive logout has been
\* processed with no session signal carrying a user since, and whether the
\* latest session signal of all was a definitive logout
Op(name, sched, timer) ==
  [op |-> name, sched |-> sched, timer |-> timer,
   afterPending |-> lastOp.op = "sessionPending",
   repeats |-> name = "schedule" /\ lastOp.op = "schedule" /\ lastOp.sched = sched,
   hadRecord |-> cachedAuth # Null,
   sinceLogout |-> IF name = "sessionLogout" THEN TRUE
                   ELSE IF name = "sessionUser" THEN FALSE
                   ELSE lastOp.sinceLogout,
   logoutLast |-> IF name = "sessionLogout" THEN TRUE
                  ELSE IF name \in {"sessionUser", "sessionPending", "sessionOther"}
                  THEN FALSE
                  ELSE lastOp.logoutLast]

Within(w) == /\ BagCardinality(w.inflight) <= MaxInFlight
             /\ Cardinality(w.timers) <= MaxTimers

Apply(w) ==
  /\ cachedAuth' = w.cachedAuth
  /\ refreshTimeout' = w.refreshTimeout
  /\ timers' = w.timers
  /\ inflight' = w.inflight
  /\ storage' = w.storage
  /\ store' = w.store
  /\ emitted' = w.emitted
  /\ fetchCalls' = w.fetchCalls

\* the fetches in flight without one whose caller is r
Settle(w, r) == [w EXCEPT !.inflight = @ (-) SetToBag({r})]

InitialStorages ==
  {Absent, Garbage}
  \cup {JSONStringify([jwt |-> tok,
                       user |-> [id |-> tok.claims.id, email |-> tok.claims.email,
                                 name |-> tok.claims.name],
                       expiresAt |-> tok.claims.exp * 1000]) :
          tok \in Tokens}

CorsIdle ==
  /\ corsConfig = Null
  /\ regexLastIndex = 0
  /\ corsRequest = Null
  /\ corsPhase = "idle"
  /\ corsDownstream = Null
  /\ corsResponse = Null
  /\ handlerCalls = 0

\* new AuthService() at module load, over whatever an earlier visit stored
Init ==
  /\ now = 0
  /\ \E stored \in InitialStorages :
       LET w == constructor(stored, 0)
       IN /\ cachedAuth = w.cachedAuth
          /\ refreshTimeout = w.refreshTimeout
          /\ timers = w.timers
          /\ inflight = w.inflight
          /\ storage = w.storage
          /\ store = w.store
          /\ emitted = w.emitted
          /\ fetchCalls = w.fetchCalls
          /\ lastOp = [op |-> "construct", sched |-> LoadSched(stored, 0),
                       timer |-> NoTimer, afterPending |-> FALSE,
                       repeats |-> FALSE, hadRecord |-> FALSE,
                       sinceLogout |-> FALSE, logoutLast |-> FALSE]
  /\ resume = Null
  /\ mounted = FALSE
  /\ CorsIdle

\* time passes
Tick ==
  /\ resume = Null
  /\ now < MaxTicks * TickMs
  /\ now' = now + TickMs
  /\ emitted' = <<>>
  /\ fetchCalls' = 0
  /\ lastOp' = Op("tick", NoSched, NoTimer)
  /\ UNCHANGED <<cachedAuth, refreshTimeout, timers, inflight, resume, storage,
                 store, mounted, corsVars>>

\* the session subscription fires
SessionSignal ==
  /\ resume = Null
  /\ \E session \in Sessions :
       LET w == handleSessionChange(World, session)
       IN /\ Within(w)
          /\ Apply(w)
          /\ lastOp' = Op(IF HasUser(session) THEN "sessionUser"
                          ELSE IF DefinitiveLogout(session) THEN "sessionLogout"
                          ELSE IF session.isPending THEN "sessionPending"
                          ELSE "sessionOther", NoSched, NoTimer)
  /\ UNCHANGED <<now, resume, mounted, corsVars>>

\* a token fetch settles with a decodable token
RefreshSucceeds ==
  /\ resume = Null
  /\ \E r \in BagToSet(inflight), token \in Tokens :
       LET w == refreshAndCacheTokenSuccess(Settle(World, r), token, now)
       IN /\ Within(w)
          /\ Apply(w)
          /\ resume' = IF r.origin = "session" THEN r.user ELSE Null
          /\ lastOp' = Op("refreshSuccess", jwtDecode(token).exp * 1000, NoTimer)
  /\ UNCHANGED <<now, mounted, corsVars>>

\* a token fetch fails
RefreshFails ==
  /\ resume = Null
  /\ \E r \in BagToSet(inflight), kind \in FailureKinds :
       LET w == refreshAndCacheTokenFailure(Settle(World, r), kind)
       IN /\ Apply(w)
          /\ resume' = IF r.origin = "session" THEN r.user ELSE Null
          /\ lastOp' = Op("refreshFailure", NoSched, NoTimer)
  /\ UNCHANGED <<now, mounted, corsVars>>

\* handleSessionChange continues after its awaited refresh has settled
HandlerResumes ==
  /\ resume # Null
  /\ Apply(handleSessionChangeResume(World, resume))
  /\ resume' = Null
  /\ lastOp' = Op("handlerResume", NoSched, NoTimer)
  /\ UNCHANGED <<now, mounted, corsVars>>

\* an armed timer comes due and runs its callback
TimerFires ==
  /\ resume = Null
  /\ \E x \in timers :
       /\ x.due <= now
       /\ LET w == refreshAndCacheTokenStart(
                     [World EXCEPT !.timers = @ \ {x}], "timer", Null)
          IN /\ Within(w)
             /\ Apply(w)
             /\ lastOp' = Op("timerFire", NoSched, x.id)
  /\ UNCHANGED <<now, resume, mounted, corsVars>>

\* the page is reloaded: a new AuthService is constructed over localStorage
Reload ==
  /\ Apply(constructor(storage, now))
  /\ resume' = Null
  /\ mounted' = FALSE
  /\ lastOp' = Op("construct", LoadSched(storage, now), NoTimer)
  /\ UNCHANGED <<now, corsVars>>

\* App's mount effect runs once per page load
AppMount ==
  /\ resume = Null
  /\ ~mounted
  /\ Apply(appMountEffect(World))
  /\ mounted' = TRUE
  /\ lastOp' = Op("appMount", NoSched, NoTimer)
  /\ UNCHANGED <<now, resume, corsVars>>

Next ==
  \/ Tick
  \/ SessionSignal
  \/ RefreshSucceeds
  \/ RefreshFails
  \/ HandlerResumes
  \/ TimerFires
  \/ Reload
  \/ AppMount

Spec == Init /\ [][Next]_vars

(***************************************************************************)
(* scheduleTokenRefresh exercised on its own: direct calls of the method   *)
(* with any expiry, the clock, and the timers and refreshes they start.    *)
(***************************************************************************)
ScheduleCall ==
  /\ resume = Null
  /\ \E e \in ExpSecs :
       LET w == scheduleTokenRefresh(World, e * 1000, now)
       IN /\ Within(w)
          /\ Apply(w)
          /\ lastOp' = Op("schedule", e * 1000, NoTimer)
  /\ UNCHANGED <<now, resume, mounted, corsVars>>

NextSchedule ==
  \/ ScheduleCall
  \/ Tick
  \/ TimerFires
  \/ RefreshSucceeds
  \/ RefreshFails

SpecSchedule == Init /\ [][NextSchedule]_vars

(***************************************************************************)
(* The CORS middleware.  Header maps are functions from lower-case header  *)
(* names (Headers is case-insensitive) to values; a name outside the       *)
(* domain is a header that is not set.                                     *)
(***************************************************************************)
NoHeaders == [x \in {} |-> ""]
HasHeader(h, name) == name \in DOMAIN h
SetHeader(h, name, value) ==
  [x \in DOMAIN h \cup {name} |-> IF x = name THEN value ELSE h[x]]

\* String.prototype.includes / indexOf(...) !== -1
Includes(s, sub) ==
  \E i \in 1..(Len(s) - Len(sub) + 1) : SubSeq(s, i, i + Len(sub) - 1) = sub

RECURSIVE Join(_)
\* Array.prototype.join(', ')
Join(items) ==
  IF Len(items) = 0 THEN ""
  ELSE IF Len(items) = 1 THEN items[1]
  ELSE items[1] \o ", " \o Join(Tail(items))

\* the order in which a Headers object lists its names
HeaderOrder == <<"accept", "access-control-request-headers",
                 "access-control-request-method", "origin">>

\* processHeaders: the names of the headers present, joined
processHeaders(h) ==
  Join(SelectSeq(HeaderOrder, LAMBDA name : name \in DOMAIN h))

\* Array.isArray(x) ? x.join(', ') : x
JoinedValue(v) ==
  IF v.kind = "list" THEN [kind |-> "string", s |-> Join(v.items)] ELSE v

allowedHeadersValue(cfg) == JoinedValue(cfg.allowedHeaders)
exposeHeadersValue(cfg) == JoinedValue(cfg.exposeHeaders)
\* `methods = true` in the destructuring of the configuration: the default
\* replaces undefined, and only undefined
methods(cfg) == IF cfg.methods.kind = "undefined" THEN [kind |-> "true"]
                ELSE cfg.methods
methodsValue(cfg) == JoinedValue(methods(cfg))
\* !v for a value of the configuration
Falsy(v) == v.kind \in {"false", "null", "undefined"} \/ (v.kind = "string" /\ v.s = "")

\* origins: undefined for a boolean (here the empty list, which the code treats
\* alike: `origins?.some` and `!origins?.length`), else the list of rules
origins(cfg) ==
  IF cfg.origin.kind = "bool" THEN <<>>
  ELSE IF cfg.origin.kind = "list" THEN cfg.origin.rules
  ELSE <<cfg.origin.rule>>

IsWildcardRule(o) == o.kind = "string" /\ o.s = "*"

anyOrigin(cfg) == \E i \in 1..Len(origins(cfg)) : IsWildcardRule(origins(cfg)[i])

\* RegExp.prototype.test for a pattern that is a literal text: the search
\* starts at lastIndex when the pattern has the g flag and at 0 otherwise; a
\* pattern with the g flag keeps the end of the match as its new lastIndex,
\* and 0 after a failed search.  Indices count from 0 as in the source.
RegExpTest(rule, str) ==
  LET start == IF rule.global THEN rule.lastIndex ELSE 0
      found == {i \in start..(Len(str) - Len(rule.source)) :
                  SubSeq(str, i + 1, i + Len(rule.source)) = rule.source}
      first == CHOOSE i \in found : \A j \in found : i <= j
  IN IF found # {}
     THEN [result |-> TRUE,
           lastIndex |-> IF rule.global THEN first + Len(rule.source)
                         ELSE rule.lastIndex]
     ELSE [result |-> FALSE,
           lastIndex |-> IF rule.global THEN 0 ELSE rule.lastIndex]

isOriginAllowedExactOnly(rule, request, requestOrigin) ==
  IF rule.kind = "string" THEN rule.s = requestOrigin
  ELSE IF rule.kind = "function" THEN requestOrigin \in rule.accepts
  ELSE IF rule.kind = "regexp" THEN RegExpTest(rule, requestOrigin).result
  ELSE FALSE

\* isOriginAllowed for one rule
isOriginAllowed(rule, request, requestOrigin) ==
  IF rule.kind = "string"
  THEN IF ~Includes(rule.s, "://")
       THEN Includes(requestOrigin, rule.s)
       ELSE rule.s = requestOrigin
  ELSE IF rule.kind = "function" THEN requestOrigin \in rule.accepts
  ELSE IF rule.kind = "regexp" THEN RegExpTest(rule, requestOrigin).result
  ELSE FALSE

OriginAlwaysStar(request) == "*"

\* request.headers.get('Origin') || '*'
OriginOrStar(request) ==
  IF HasHeader(request.headers, "origin") /\ request.headers["origin"] # ""
  THEN request.headers["origin"] ELSE "*"

\* request.headers.get('Origin') ?? ''
OriginOrEmpty(request) ==
  IF HasHeader(request.headers, "origin") THEN request.headers["origin"] ELSE ""

noMatchingOriginSilent(headers) == headers

\* the end of handleOrigin, reached when no rule matched
noMatchingOrigin(headers) == SetHeader(headers, "vary", "Origin")

\* the policy as it stands when its RegExp's lastIndex is li
WithLastIndex(cfg, li) ==
  LET set(r) == IF r.kind = "regexp" THEN [r EXCEPT !.lastIndex = li] ELSE r
      o == cfg.origin
  IN [cfg EXCEPT !.origin =
        IF o.kind = "list"
        THEN [o EXCEPT !.rules = [i \in DOMAIN o.rules |-> set(o.rules[i])]]
        ELSE IF o.kind = "single" THEN [o EXCEPT !.rule = set(o.rule)]
        ELSE o]

\* lastIndex of the policy's RegExp once handleOrigin has run: the loop over
\* the rules tests the RegExp unless an earlier rule has matched
lastIndexAfter(cfg, request, li) ==
  LET rules == origins(cfg)
      requestOrigin == OriginOrEmpty(request)
      reached == {i \in 1..Len(rules) :
                    /\ rules[i].kind = "regexp"
                    /\ \A j \in 1..(i - 1) :
                         ~isOriginAllowed(rules[j], request, requestOrigin)}
  IN IF \/ cfg.origin.kind = "bool"
        \/ anyOrigin(cfg)
        \/ Len(rules) = 0
        \/ requestOrigin = ""
        \/ reached = {}
     THEN li
     ELSE RegExpTest(rules[CHOOSE i \in reached : TRUE], requestOrigin).lastIndex

handleOriginRulesInOrder(cfg, headers, request) ==
  IF cfg.origin.kind = "bool" /\ cfg.origin.value
  THEN SetHeader(SetHeader(headers, "vary", "*"),
                 "access-control-allow-origin", OriginOrStar(request))
  ELSE IF Len(origins(cfg)) = 0 THEN headers
  ELSE LET requestOrigin == OriginOrEmpty(request)
       IN IF requestOrigin = "" THEN headers
          ELSE IF \E i \in 1..Len(origins(cfg)) :
                    isOriginAllowed(origins(cfg)[i], request, requestOrigin)
          THEN SetHeader(SetHeader(headers, "vary", "Origin"),
                         "access-control-allow-origin", requestOrigin)
          ELSE IF anyOrigin(cfg)
          THEN SetHeader(SetHeader(headers, "vary", "*"),
                         "access-control-allow-origin", "*")
          ELSE noMatchingOrigin(headers)

handleOrigin(cfg, headers, request) ==
  IF cfg.origin.kind = "bool" /\ cfg.origin.value
  THEN SetHeader(SetHeader(headers, "vary", "*"),
                 "access-control-allow-origin", OriginOrStar(request))
  ELSE IF anyOrigin(cfg)
  THEN SetHeader(SetHeader(headers, "vary", "*"),
                 "access-control-allow-origin", "*")
  ELSE IF Len(origins(cfg)) = 0 THEN headers
  ELSE LET requestOrigin == OriginOrEmpty(request)
       IN IF requestOrigin = "" THEN headers
          ELSE IF \E i \in 1..Len(origins(cfg)) :
                    isOriginAllowed(origins(cfg)[i], request, requestOrigin)
          THEN SetHeader(SetHeader(headers, "vary", "Origin"),
                         "access-control-allow-origin", requestOrigin)
          ELSE noMatchingOrigin(headers)

handleMethodsWithoutMethodCheck(cfg, headers, method) ==
  IF methods(cfg).kind = "true"
  THEN IF method.present
       THEN SetHeader(headers, "access-control-allow-methods", method.value)
       ELSE SetHeader(headers, "access-control-allow-methods", "*")
  ELSE IF Falsy(methods(cfg)) THEN headers
  ELSE IF methods(cfg) = [kind |-> "string", s |-> "*"]
  THEN SetHeader(headers, "access-control-allow-methods", "*")
  ELSE SetHeader(headers, "access-control-allow-methods", methodsValue(cfg).s)

\* method: [present, value], the header or property read by the caller
handleMethods(cfg, headers, method) ==
  IF ~method.present \/ method.value = "" THEN headers
  ELSE IF methods(cfg).kind = "true"
  THEN SetHeader(headers, "access-control-allow-methods", method.value)
  ELSE IF Falsy(methods(cfg)) THEN headers
  ELSE IF methods(cfg) = [kind |-> "string", s |-> "*"]
  THEN SetHeader(headers, "access-control-allow-methods", "*")
  ELSE SetHeader(headers, "access-control-allow-methods", methodsValue(cfg).s)

GetHeader(request, name) ==
  IF HasHeader(request.headers, name)
  THEN [present |-> TRUE, value |-> request.headers[name]]
  ELSE [present |-> FALSE, value |-> ""]

\* Number.prototype.toString for the max ages the model configures
NumberToString(n) == IF n = 5 THEN "5" ELSE "0"

handlePreflightListsHeaderNames(cfg, request) ==
  LET h1 == handleOrigin(cfg, NoHeaders, request)
      h2 == handleMethods(cfg, h1, GetHeader(request, "access-control-request-method"))
      h3 == IF allowedHeadersValue(cfg).kind = "true"
            THEN SetHeader(h2, "access-control-allow-headers",
                           processHeaders(request.headers))
            ELSE SetHeader(h2, "access-control-allow-headers", allowedHeadersValue(cfg).s)
      h4 == IF exposeHeadersValue(cfg).kind = "true"
            THEN SetHeader(h3, "access-control-expose-headers",
                           processHeaders(request.headers))
            ELSE SetHeader(h3, "access-control-expose-headers", exposeHeadersValue(cfg).s)
      h5 == IF cfg.credentials
            THEN SetHeader(h4, "access-control-allow-credentials", "true") ELSE h4
      h6 == IF cfg.maxAge # 0
            THEN SetHeader(h5, "access-control-max-age", NumberToString(cfg.maxAge))
            ELSE h5
  IN [status |-> 204, statusText |-> "", body |-> Null, headers |-> h6]

handlePreflight(cfg, request) ==
  LET h1 == handleOrigin(cfg, NoHeaders, request)
      h2 == handleMethods(cfg, h1, GetHeader(request, "access-control-request-method"))
      requestHeaders == GetHeader(request, "access-control-request-headers")
      h3 == IF allowedHeadersValue(cfg).kind = "true"
            THEN IF requestHeaders.present /\ requestHeaders.value # ""
                 THEN SetHeader(h2, "access-control-allow-headers", requestHeaders.value)
                 ELSE h2
            ELSE SetHeader(h2, "access-control-allow-headers", allowedHeadersValue(cfg).s)
      h4 == IF exposeHeadersValue(cfg).kind = "true"
            THEN SetHeader(h3, "access-control-expose-headers",
                           processHeaders(request.headers))
            ELSE SetHeader(h3, "access-control-expose-headers", exposeHeadersValue(cfg).s)
      h5 == IF cfg.credentials
            THEN SetHeader(h4, "access-control-allow-credentials", "true") ELSE h4
      h6 == IF cfg.maxAge # 0
            THEN SetHeader(h5, "access-control-max-age", NumberToString(cfg.maxAge))
            ELSE h5
  IN [status |-> 204, statusText |-> "", body |-> Null, headers |-> h6]

applyCorsHeadersDefaultStatus(cfg, request, response) ==
  LET h1 == handleOrigin(cfg, response.headers, request)
      h2 == handleMethods(cfg, h1, [present |-> TRUE, value |-> request.method])
      h3 == IF allowedHeadersValue(cfg).kind = "true"
            THEN SetHeader(h2, "access-control-allow-headers",
                           processHeaders(request.headers))
            ELSE SetHeader(h2, "access-control-allow-headers", allowedHeadersValue(cfg).s)
      h4 == IF exposeHeadersValue(cfg).kind = "true"
            THEN SetHeader(h3, "access-control-expose-headers",
                           processHeaders(request.headers))
            ELSE SetHeader(h3, "access-control-expose-headers", exposeHeadersValue(cfg).s)
      h5 == IF cfg.credentials
            THEN SetHeader(h4, "access-control-allow-credentials", "true") ELSE h4
  IN [status |-> 200, statusText |-> "", body |-> response.body, headers |-> h5]

applyCorsHeadersCredentialsOnMatch(cfg, request, response) ==
  LET h1 == handleOrigin(cfg, response.headers, request)
      h2 == handleMethods(cfg, h1, [present |-> TRUE, value |-> request.method])
      h3 == IF allowedHeadersValue(cfg).kind = "true"
            THEN SetHeader(h2, "access-control-allow-headers",
                           processHeaders(request.headers))
            ELSE SetHeader(h2, "access-control-allow-headers", allowedHeadersValue(cfg).s)
      h4 == IF exposeHeadersValue(cfg).kind = "true"
            THEN SetHeader(h3, "access-control-expose-headers",
                           processHeaders(request.headers))
            ELSE SetHeader(h3, "access-control-expose-headers", exposeHeadersValue(cfg).s)
      h5 == IF cfg.credentials /\ h1 # noMatchingOrigin(response.headers)
            THEN SetHeader(h4, "access-control-allow-credentials", "true") ELSE h4
  IN [status |-> response.status, statusText |-> response.statusText,
      body |-> response.body, headers |-> h5]

applyCorsHeaders(cfg, request, response) ==
  LET h1 == handleOrigin(cfg, response.headers, request)
      h2 == handleMethods(cfg, h1, [present |-> TRUE, value |-> request.method])
      h3 == IF allowedHeadersValue(cfg).kind = "true"
            THEN SetHeader(h2, "access-control-allow-headers",
                           processHeaders(request.headers))
            ELSE SetHeader(h2, "access-control-allow-headers", allowedHeadersValue(cfg).s)
      h4 == IF exposeHeadersValue(cfg).kind = "true"
            THEN SetHeader(h3, "access-control-expose-headers",
                           processHeaders(request.headers))
            ELSE SetHeader(h3, "access-control-expose-headers", exposeHeadersValue(cfg).s)
      h5 == IF cfg.credentials
            THEN SetHeader(h4, "access-control-allow-credentials", "true") ELSE h4
  IN [status |-> response.status, statusText |-> response.statusText,
      body |-> response.body, headers |-> h5]

handlerRejectionAsResponse(error) ==
  [status |-> 500, statusText |-> "Internal Server Error", body |-> error,
   headers |-> NoHeaders]

\* `await handler(request)` outside any try block, when the handler's promise
\* rejects: the wrapper's own promise rejects with the same error
handlerRejection(error) == [rejected |-> TRUE, error |-> error]

interceptsPreflightLowerCase(cfg, request) ==
  cfg.preflight /\ request.method = "options"

\* the wrapper's test for a preflight it answers itself
interceptsPreflight(cfg, request) == cfg.preflight /\ request.method = "OPTIONS"

(***************************************************************************)
(* Policies, requests and downstream responses the model ranges over.      *)
(***************************************************************************)
Str(s) == [kind |-> "string", s |-> s]

RequestOrigins == {"https://a.example", "https://a.example.com",
                   "https://example.com", "http://evil.test"}

OriginOptions ==
  { [kind |-> "bool", value |-> TRUE],
    [kind |-> "bool", value |-> FALSE],
    [kind |-> "list", rules |-> <<>>],
    [kind |-> "list", rules |-> <<Str("example.com")>>],
    [kind |-> "single", rule |-> Str("https://example.com")],
    [kind |-> "list", rules |-> <<Str("https://a.example"), Str("*")>>],
    [kind |-> "list",
     rules |-> <<[kind |-> "regexp", source |-> "a.example.com",
                  global |-> FALSE, lastIndex |-> 0],
                 Str("https://a.example")>>],
    [kind |-> "single",
     rule |-> [kind |-> "regexp", source |-> "example.com", global |-> TRUE,
               lastIndex |-> 0]],
    [kind |-> "single",
     rule |-> [kind |-> "function", accepts |-> {"http://evil.test"}]] }

MethodsOptions ==
  { [kind |-> "true"], [kind |-> "undefined"], [kind |-> "false"],
    [kind |-> "null"], Str(""), Str("*"),
    [kind |-> "list", items |-> <<"GET", "POST">>] }

HeadersOptions ==
  { [allowed |-> [kind |-> "true"], expose |-> [kind |-> "true"]],
    [allowed |-> [kind |-> "list", items |-> <<"content-type", "x-token">>],
     expose |-> Str("x-total")] }

CorsConfigs ==
  { [origin |-> o, methods |-> m, allowedHeaders |-> h.allowed,
     exposeHeaders |-> h.expose, credentials |-> c, maxAge |-> IF c THEN 5 ELSE 0,
     preflight |-> p] :
      o \in OriginOptions, m \in MethodsOptions, h \in HeadersOptions,
      c \in BOOLEAN, p \in BOOLEAN }

\* the Origin header: not sent, sent empty, or one of RequestOrigins
OriginHeaders ==
  {NoHeaders, SetHeader(NoHeaders, "origin", "")}
  \cup {SetHeader(NoHeaders, "origin", o) : o \in RequestOrigins}

CorsRequests ==
  { [method |-> m,
     headers |-> IF pre
                 THEN SetHeader(SetHeader(o, "access-control-request-method", "PUT"),
                                "access-control-request-headers", "x-token")
                 ELSE SetHeader(o, "accept", "text/html")] :
      m \in {"GET", "OPTIONS"}, o \in OriginHeaders, pre \in BOOLEAN }

\* what a failing handler throws
HandlerErrors == {"TypeError: fetch failed", "Error: no such route"}

DownstreamResponses ==
  { [status |-> 200, statusText |-> "OK", body |-> "hello",
     headers |-> SetHeader(NoHeaders, "content-type", "text/plain")],
    [status |-> 404, statusText |-> "Not Found", body |-> "nothing here",
     headers |-> SetHeader(SetHeader(NoHeaders, "vary", "Accept-Encoding"),
                           "access-control-allow-origin", "https://other.test")] }

(***************************************************************************)
(* The wrapper cors(config)(handler) as a state machine: one request at a  *)
(* time, suspended once at `await handler(request)`.                       *)
(***************************************************************************)
AuthIdle ==
  /\ now = 0
  /\ cachedAuth = Null
  /\ refreshTimeout = NoTimer
  /\ timers = {}
  /\ inflight = EmptyBag
  /\ resume = Null
  /\ storage = Absent
  /\ store = StoreInit
  /\ mounted = FALSE
  /\ emitted = <<>>
  /\ fetchCalls = 0
  /\ lastOp = [op |-> "construct", sched |-> NoSched, timer |-> NoTimer,
               afterPending |-> FALSE, repeats |-> FALSE, hadRecord |-> FALSE,
               sinceLogout |-> FALSE, logoutLast |-> FALSE]

\* cors(config)
InitCors ==
  /\ corsConfig \in CorsConfigs
  /\ regexLastIndex = 0
  /\ corsRequest = Null
  /\ corsPhase = "idle"
  /\ corsDownstream = Null
  /\ corsResponse = Null
  /\ handlerCalls = 0
  /\ AuthIdle

\* a request arrives; a preflight is answered at once
CorsPreflight ==
  /\ corsPhase # "awaiting"
  /\ \E request \in CorsRequests :
       /\ interceptsPreflight(corsConfig, request)
       /\ corsRequest' = request
       /\ corsResponse' = handlePreflight(
                             WithLastIndex(corsConfig, regexLastIndex), request)
       /\ regexLastIndex' = lastIndexAfter(
                               WithLastIndex(corsConfig, regexLastIndex), request,
                               regexLastIndex)
  /\ corsPhase' = "responded"
  /\ corsDownstream' = Null
  /\ handlerCalls' = 0
  /\ UNCHANGED <<corsConfig, authVars>>

\* a request arrives and is handed to the downstream handler
CorsCallHandler ==
  /\ corsPhase # "awaiting"
  /\ \E request \in CorsRequests :
       /\ ~interceptsPreflight(corsConfig, request)
       /\ corsRequest' = request
  /\ corsPhase' = "awaiting"
  /\ corsDownstream' = Null
  /\ corsResponse' = Null
  /\ handlerCalls' = 1
  /\ UNCHANGED <<corsConfig, regexLastIndex, authVars>>

\* the downstream handler returns a response
CorsHandlerReturns ==
  /\ corsPhase = "awaiting"
  /\ \E response \in DownstreamResponses :
       /\ corsDownstream' = response
       /\ corsResponse' = applyCorsHeaders(
                             WithLastIndex(corsConfig, regexLastIndex),
                             corsRequest, response)
  /\ regexLastIndex' = lastIndexAfter(WithLastIndex(corsConfig, regexLastIndex),
                                      corsRequest, regexLastIndex)
  /\ corsPhase' = "responded"
  /\ UNCHANGED <<corsConfig, corsRequest, handlerCalls, authVars>>

\* the downstream handler throws: the rejection passes through the wrapper
CorsHandlerThrows ==
  /\ corsPhase = "awaiting"
  /\ corsPhase' = "threw"
  /\ \E error \in HandlerErrors :
       /\ corsDownstream' = [threw |-> TRUE, error |-> error]
       /\ corsResponse' = handlerRejection(error)
  /\ UNCHANGED <<corsConfig, regexLastIndex, corsRequest, handlerCalls, authVars>>

NextCors ==
  \/ CorsPreflight
  \/ CorsCallHandler
  \/ CorsHandlerReturns
  \/ CorsHandlerThrows

SpecCors == InitCors /\ [][NextCors]_vars

(***************************************************************************)
(* Properties of the CORS middleware, checked under SpecCors.              *)
(***************************************************************************)
Responded == corsPhase = "responded"
AllowOrigin == "access-control-allow-origin"
\* the headers the wrapper started from: none for a preflight, the downstream
\* response's for an actual request
BaseHeaders == IF corsDownstream = Null THEN NoHeaders ELSE corsDownstream.headers
\* the wrapper left Access-Control-Allow-Origin as it found it
AllowOriginUntouched ==
  /\ HasHeader(corsResponse.headers, AllowOrigin) <=> HasHeader(BaseHeaders, AllowOrigin)
  /\ HasHeader(BaseHeaders, AllowOrigin) =>
       corsResponse.headers[AllowOrigin] = BaseHeaders[AllowOrigin]
VaryUntouched ==
  /\ HasHeader(corsResponse.headers, "vary") <=> HasHeader(BaseHeaders, "vary")
  /\ HasHeader(BaseHeaders, "vary") => corsResponse.headers["vary"] = BaseHeaders["vary"]
HeaderIs(h, name, value) == HasHeader(h, name) /\ h[name] = value
AllowAll == corsConfig.origin.kind = "bool" /\ corsConfig.origin.value
OriginSent == HasHeader(corsRequest.headers, "origin")

\* C1: once a request with method OPTIONS has arrived under a policy with
\* preflight enabled, the downstream handler has not been invoked for it and
\* the wrapper has returned a standalone response (no body, nothing from a
\* downstream response) with status 204.
C1_PreflightShortCircuits ==
  (corsRequest # Null /\ corsConfig.preflight /\ corsRequest.method = "OPTIONS")
    => /\ handlerCalls = 0
       /\ corsDownstream = Null
       /\ Responded
       /\ corsResponse.status = 204
       /\ corsResponse.body = Null

C1_Witness ==
  /\ Responded
  /\ corsConfig.preflight
  /\ corsRequest.method = "OPTIONS"
  /\ OriginSent
  /\ handlerCalls = 0
  /\ corsResponse.status = 204

\* C2 as stated: under origin: true every response carries the request's
\* Origin header verbatim as Access-Control-Allow-Origin when the header is
\* present, and '*' when it is absent.
C2_Original ==
  (Responded /\ AllowAll)
    => /\ HasHeader(corsResponse.headers, AllowOrigin)
       /\ corsResponse.headers[AllowOrigin] =
            IF OriginSent THEN corsRequest.headers["origin"] ELSE "*"

\* C2 as amended: under origin: true every response (preflight or actual)
\* carries the request's Origin header verbatim when the header is present
\* with a non-empty value, and '*' when it is absent or empty.
C2_AllowAllEchoesOrigin ==
  (Responded /\ AllowAll)
    => /\ HasHeader(corsResponse.headers, AllowOrigin)
       /\ corsResponse.headers[AllowOrigin] =
            IF OriginSent /\ corsRequest.headers["origin"] # ""
            THEN corsRequest.headers["origin"] ELSE "*"

C2_Witness ==
  /\ Responded
  /\ AllowAll
  /\ corsDownstream # Null
  /\ HasHeader(BaseHeaders, AllowOrigin)
  /\ OriginSent
  /\ corsRequest.headers["origin"] = "https://a.example"
  /\ HeaderIs(corsResponse.headers, AllowOrigin, "https://a.example")

\* the policy's origin is one string rule other than '*'
SingleStringRule ==
  /\ Len(origins(corsConfig)) = 1
  /\ origins(corsConfig)[1].kind = "string"
  /\ origins(corsConfig)[1].s # "*"
TheRule == origins(corsConfig)[1].s
Echoed ==
  /\ HasHeader(corsResponse.headers, AllowOrigin)
  /\ corsResponse.headers[AllowOrigin] = corsRequest.headers["origin"]

\* the rule of C3 for string rules: a rule without '://' matches every Origin
\* that contains it, a rule with '://' only the Origin equal to it; a matching
\* Origin is echoed and for any other Origin the header is left alone
StringRuleSemantics ==
  (Responded /\ SingleStringRule /\ OriginSent /\ corsRequest.headers["origin"] # "")
    => LET o == corsRequest.headers["origin"]
           matches == IF Includes(TheRule, "://") THEN o = TheRule
                      ELSE Includes(o, TheRule)
       IN IF matches THEN Echoed ELSE AllowOriginUntouched

\* C3 as stated: the rule above, and with it the end-to-end case: origin
\* ["example.com"] and Origin https://a.example give
\* Access-Control-Allow-Origin: https://a.example.
C3_Original ==
  /\ StringRuleSemantics
  /\ (Responded /\ SingleStringRule /\ TheRule = "example.com" /\ OriginSent
        /\ corsRequest.headers["origin"] = "https://a.example") => Echoed

\* C3 as amended: the rule above; origin ["example.com"] echoes the Origin
\* https://a.example.com, which contains it, and adds no allow-origin header
\* for https://a.example, which does not.
C3_StringRuleMatching ==
  /\ StringRuleSemantics
  /\ (Responded /\ SingleStringRule /\ TheRule = "example.com" /\ OriginSent)
       => /\ corsRequest.headers["origin"] = "https://a.example.com" => Echoed
          /\ corsRequest.headers["origin"] = "https://a.example"
               => AllowOriginUntouched /\ HeaderIs(corsResponse.headers, "vary", "Origin")

C3_Witness ==
  /\ Responded
  /\ SingleStringRule
  /\ TheRule = "example.com"
  /\ OriginSent
  /\ corsRequest.headers["origin"] = "https://a.example.com"
  /\ Echoed

\* the policy has a non-empty rule list and no rule of it accepts the request
NoRuleMatches ==
  /\ Len(origins(corsConfig)) > 0
  /\ \A i \in 1..Len(origins(corsConfig)) :
       ~isOriginAllowed(origins(corsConfig)[i], corsRequest, OriginOrEmpty(corsRequest))

\* C4 as stated: a request matching no rule of a non-empty rule list, with or
\* without an Origin header, whatever the downstream response carried, gets a
\* response without Access-Control-Allow-Origin and with Vary: Origin.
C4_Original ==
  (Responded /\ NoRuleMatches)
    => /\ ~HasHeader(corsResponse.headers, AllowOrigin)
       /\ HeaderIs(corsResponse.headers, "vary", "Origin")

\* C4 as amended: for a non-empty rule list without the entry '*', a request
\* whose non-empty Origin matches no rule gets Vary: Origin and no
\* Access-Control-Allow-Origin from the engine (the header is there only when
\* the downstream response carried it); a request with no Origin header, or an
\* empty one, gets neither header from the engine.
C4_UnmatchedOrigin ==
  (Responded /\ NoRuleMatches /\ ~anyOrigin(corsConfig))
    => /\ AllowOriginUntouched
       /\ IF OriginOrEmpty(corsRequest) # ""
          THEN HeaderIs(corsResponse.headers, "vary", "Origin")
          ELSE VaryUntouched

C4_Witness ==
  /\ Responded
  /\ NoRuleMatches
  /\ ~anyOrigin(corsConfig)
  /\ corsRequest.method = "GET"
  /\ OriginOrEmpty(corsRequest) = "http://evil.test"
  /\ ~HasHeader(corsResponse.headers, AllowOrigin)
  /\ HeaderIs(corsResponse.headers, "vary", "Origin")

(***************************************************************************)
(* Properties of the auth cache manager, checked under Spec (C6 under      *)
(* SpecSchedule).                                                          *)
(***************************************************************************)
Dues(ts) == {x.due : x \in ts}

\* C5: at most one refresh timer is live and it is the one the manager holds
\* the handle of; a call of scheduleTokenRefresh from a refresh leaves none of
\* the timers armed before it live; the only timer that ever fires is the
\* current one, and firing consumes it and starts exactly one refresh.
C5_SingleLiveTimer ==
  /\ [](Cardinality(timers) <= 1 /\ \A x \in timers : x.id = refreshTimeout)
  /\ [][ /\ lastOp'.op = "refreshSuccess" => timers \cap timers' = {}
         /\ lastOp'.op = "timerFire" =>
              /\ \E x \in timers : /\ x.id = lastOp'.timer
                                   /\ x.id = refreshTimeout
                                   /\ timers' = timers \ {x}
              /\ fetchCalls' = 1 ]_vars

\* a refresh has just replaced an armed timer by a new one
C5_Witness ==
  /\ lastOp.op = "refreshSuccess"
  /\ lastOp.hadRecord
  /\ Cardinality(timers) = 1
  /\ refreshTimeout = 2

\* C6 as stated: a second call of scheduleTokenRefresh with the same expiry,
\* right after the first, leaves exactly one live timer and the manager as
\* the first call left it.
C6_Original ==
  [][ lastOp'.repeats =>
        /\ Cardinality(timers') = 1
        /\ Dues(timers') = Dues(timers)
        /\ inflight' = inflight
        /\ cachedAuth' = cachedAuth /\ storage' = storage /\ store' = store ]_vars

\* C6 as amended: when expiresAt - now exceeds five minutes, a second call
\* with the same expiry leaves exactly one live timer, with the deadline of the
\* first call's timer (which it cancels) under a new handle, and nothing else
\* changes; when expiresAt - now is five minutes or less no timer is live
\* after either call and the second call starts one more refresh.
C6_RepeatedSchedule ==
  [][ lastOp'.repeats =>
        /\ cachedAuth' = cachedAuth /\ storage' = storage /\ store' = store
        /\ emitted' = <<>>
        /\ IF lastOp'.sched - now - FiveMinutes > 0
           THEN /\ timers' = {[id |-> refreshTimeout',
                               due |-> lastOp'.sched - FiveMinutes]}
                /\ Dues(timers') = Dues(timers)
                /\ refreshTimeout' # refreshTimeout
                /\ inflight' = inflight
                /\ fetchCalls' = 0
           ELSE /\ timers' = {} /\ timers = {}
                /\ fetchCalls' = 1
                /\ BagCardinality(inflight') = BagCardinality(inflight) + 1 ]_vars

C6_Witness ==
  /\ lastOp.op = "schedule"
  /\ lastOp.repeats
  /\ lastOp.sched - now - FiveMinutes > 0
  /\ Cardinality(timers) = 1

\* C7: a step that called scheduleTokenRefresh(expiresAt) leaves, when
\* delay = expiresAt - now - 5 min is positive, exactly one timer, due at
\* now + delay, and has started no refresh; when delay is zero or negative it
\* leaves no timer and has started exactly one refresh.
C7_RefreshDelay ==
  lastOp.sched # NoSched =>
    LET delay == lastOp.sched - now - (5 * 60 * 1000)
    IN IF delay > 0
       THEN /\ timers = {[id |-> refreshTimeout, due |-> now + delay]}
            /\ fetchCalls = 0
       ELSE /\ timers = {}
            /\ fetchCalls = 1
            /\ BagIn([origin |-> "schedule", user |-> Null], inflight)

\* a token expiring in 10 minutes has armed a 5-minute timer
C7_Witness ==
  /\ lastOp.op = "refreshSuccess"
  /\ lastOp.sched - now = 10 * 60 * 1000
  /\ Dues(timers) = {now + 5 * 60 * 1000}
  /\ fetchCalls = 0

\* C8: a construction of the manager that finds the record of the current
\* cached record in storage (written by the refresh that cached it) ends with
\* that same record in memory and in storage when its expiresAt is later than
\* the load time, and with no record in memory and no storage entry otherwise;
\* and a refresh leaves in storage a text that parses back to the record it
\* cached.
C8_RoundTrip ==
  /\ [](lastOp.op = "refreshSuccess" =>
          /\ storage = JSONStringify(cachedAuth)
          /\ JSONParse(storage) = cachedAuth)
  /\ [][ (lastOp'.op = "construct" /\ cachedAuth # Null) =>
           /\ storage = JSONStringify(cachedAuth)
           /\ IF cachedAuth.expiresAt > now
              THEN cachedAuth' = cachedAuth /\ storage' = storage
              ELSE cachedAuth' = Null /\ storage' = Absent ]_vars

\* a reload has adopted the record that was cached before it
C8_Witness ==
  /\ lastOp.op = "construct"
  /\ lastOp.hadRecord
  /\ cachedAuth # Null
  /\ now > 0
  /\ storage = JSONStringify(cachedAuth)

\* C9: processing a definitive logged-out signal (data null, not pending), in
\* particular right after a pending signal, leaves no cached record in memory
\* and none under 'cached_auth', and dispatches one 'auth:change' event with
\* isAuthenticated: false.
C9_LogoutClears ==
  [][ lastOp'.op = "sessionLogout" =>
        /\ cachedAuth' = Null
        /\ storage' = Absent
        /\ emitted' = <<FALSE>> ]_vars

\* pending, then logout, with a record cached when the logout arrived
C9_Witness ==
  /\ lastOp.op = "sessionLogout"
  /\ lastOp.afterPending
  /\ lastOp.hadRecord
  /\ cachedAuth = Null
  /\ storage = Absent
  /\ emitted = <<FALSE>>

\* C10: a refresh that fails leaves the cached record, the storage entry, the
\* timer and its handle, and the store as they were, and dispatches no event.
C10_FailureKeepsState ==
  [][ lastOp'.op = "refreshFailure" =>
        /\ cachedAuth' = cachedAuth
        /\ storage' = storage
        /\ timers' = timers
        /\ refreshTimeout' = refreshTimeout
        /\ store'.token = store.token
        /\ emitted' = <<>> ]_vars

\* a failed refresh has left a cached record and its timer in place
C10_Witness ==
  /\ lastOp.op = "refreshFailure"
  /\ cachedAuth # Null
  /\ storage = JSONStringify(cachedAuth)
  /\ timers # {}
  /\ store.token # Null

(***************************************************************************)
(* C11: a session signal that is pending (no user, isPending true) changes *)
(* only the store's loading flag: the cached record, the storage entry,    *)
(* the refresh timer and the store's user, token and isAuthenticated stay  *)
(* as they were, no fetch is started and no 'auth:change' event is         *)
(* emitted.                                                                *)
(***************************************************************************)
C11_PendingOnlyLoading ==
  [][lastOp'.op = "sessionPending" =>
       /\ cachedAuth' = cachedAuth
       /\ storage' = storage
       /\ refreshTimeout' = refreshTimeout
       /\ timers' = timers
       /\ inflight' = inflight
       /\ store'.user = store.user
       /\ store'.token = store.token
       /\ store'.isAuthenticated = store.isAuthenticated
       /\ store'.isLoading = TRUE
       /\ emitted' = <<>>
       /\ fetchCalls' = 0]_vars

\* a pending signal has arrived while a record was cached and a timer armed
C11_Witness ==
  /\ lastOp.op = "sessionPending"
  /\ lastOp.hadRecord
  /\ cachedAuth # Null
  /\ timers # {}
  /\ store.isLoading

(***************************************************************************)
(* C12: getCurrentUser, getAuthToken and isAuthenticated are read-through: *)
(* each returns the store's value when the store holds one and otherwise   *)
(* the value of the cached record (null/false when neither exists); and    *)
(* the values reported at one instant never combine data of the store with *)
(* data of the cached record.                                              *)
(***************************************************************************)
\* where each getter takes its answer from in the current state
UserSource == IF store.user # Null THEN "store"
              ELSE IF cachedAuth # Null THEN "cache" ELSE "none"
TokenSource == IF store.token # Null THEN "store"
               ELSE IF cachedAuth # Null THEN "cache" ELSE "none"
FlagSource == IF store.isAuthenticated THEN "store"
              ELSE IF cachedAuth # Null THEN "cache" ELSE "none"
GetterSources == {UserSource, TokenSource, FlagSource}

ReadThrough ==
  /\ getCurrentUser(World) = CASE UserSource = "store" -> store.user
                               [] UserSource = "cache" -> cachedAuth.user
                               [] OTHER -> Null
  /\ getAuthToken(World) = CASE TokenSource = "store" -> store.token
                             [] TokenSource = "cache" -> cachedAuth.jwt
                             [] OTHER -> Null
  /\ isAuthenticated(World) = (FlagSource # "none")

\* the claim as stated: read-through, and one source per instant
C12_Original ==
  /\ ReadThrough
  /\ ~({"store", "cache"} \subseteq GetterSources)

\* C12 as the code has it: each getter on its own is read-through; which
\* source answers is decided getter by getter
C12_ReadThroughPerGetter == ReadThrough

\* the store holds a user but no token while a record is cached: the user
\* reported is the store's, the token reported is the cached record's
C12_Witness ==
  /\ store.user # Null
  /\ store.token = Null
  /\ cachedAuth # Null
  /\ getCurrentUser(World) = store.user
  /\ getAuthToken(World) = cachedAuth.jwt

(***************************************************************************)
(* C13: for every request that is not intercepted as a preflight (any      *)
(* request whose method is not OPTIONS, and an OPTIONS request when        *)
(* preflight is disabled) the wrapper invokes the downstream handler       *)
(* exactly once, before it computes any CORS header, and the response it   *)
(* returns keeps the downstream response's status, status text, body and   *)
(* the headers that are not CORS response headers.                         *)
(***************************************************************************)
\* the response headers the middleware produces
CorsResponseHeaders ==
  {"access-control-allow-origin", "access-control-allow-methods",
   "access-control-allow-headers", "access-control-expose-headers",
   "access-control-allow-credentials", "access-control-max-age", "vary"}

NotIntercepted ==
  /\ corsRequest # Null
  /\ corsRequest.method # "OPTIONS" \/ ~corsConfig.preflight

C13_HandlerOnceThenAugment ==
  NotIntercepted =>
    /\ handlerCalls = 1
    /\ corsPhase = "awaiting" => corsResponse = Null
    /\ Responded =>
         /\ corsResponse.status = corsDownstream.status
         /\ corsResponse.statusText = corsDownstream.statusText
         /\ corsResponse.body = corsDownstream.body
         /\ \A name \in DOMAIN corsDownstream.headers \ CorsResponseHeaders :
              HeaderIs(corsResponse.headers, name, corsDownstream.headers[name])

\* an OPTIONS request under a policy with preflight disabled was answered by
\* the handler with 404, and the wrapper has returned that response augmented
C13_Witness ==
  /\ Responded
  /\ corsRequest.method = "OPTIONS"
  /\ ~corsConfig.preflight
  /\ handlerCalls = 1
  /\ corsDownstream.status = 404
  /\ corsResponse.status = 404
  /\ corsResponse.body = "nothing here"
  /\ HasHeader(corsResponse.headers, "access-control-allow-credentials")

(***************************************************************************)
(* C14: the middleware never throws on its own, whatever the policy and    *)
(* the request: the wrapper's promise rejects only when the downstream     *)
(* handler failed, and then with the handler's error unmodified; the       *)
(* failure is neither swallowed nor turned into a response.                *)
(***************************************************************************)
C14_OnlyHandlerFailures ==
  /\ (corsResponse # Null /\ "rejected" \in DOMAIN corsResponse)
       => /\ corsPhase = "threw"
          /\ corsDownstream = [threw |-> TRUE, error |-> corsResponse.error]
  /\ corsPhase = "threw"
       => /\ corsResponse = [rejected |-> TRUE, error |-> corsDownstream.error]
          /\ handlerCalls = 1
  /\ Responded => "status" \in DOMAIN corsResponse

\* the handler has thrown and the caller of the wrapper has received the error
C14_Witness ==
  /\ corsPhase = "threw"
  /\ corsDownstream.error = "Error: no such route"
  /\ corsResponse = [rejected |-> TRUE, error |-> "Error: no such route"]

(***************************************************************************)
(* C15: a session signal that carries a user starts refreshAndCacheToken,  *)
(* whatever the state (also when nothing is cached); when the fetch and    *)
(* the decode succeed the manager ends with the cached record {jwt: the    *)
(* fetched token, user: {id, email, name} of its claims, expiresAt: exp *  *)
(* 1000}, the same record stored under 'cached_auth', a refresh scheduled  *)
(* for that expiry, the store's token set, and one 'auth:change' event     *)
(* with isAuthenticated true.                                              *)
(***************************************************************************)
\* the record refreshAndCacheToken builds from a token
RecordOf(token) ==
  [jwt |-> token,
   user |-> [id |-> token.claims.id, email |-> token.claims.email,
             name |-> token.claims.name],
   expiresAt |-> token.claims.exp * 1000]

C15_SessionRefresh ==
  [][/\ lastOp'.op = "sessionUser" =>
          /\ fetchCalls' = 1
          /\ BagCardinality(inflight') = BagCardinality(inflight) + 1
          /\ \E r \in BagToSet(inflight') :
               /\ r.origin = "session"
               /\ CopiesIn(r, inflight') = CopiesIn(r, inflight) + 1
          /\ cachedAuth' = cachedAuth
     /\ lastOp'.op = "refreshSuccess" =>
          /\ cachedAuth' # Null
          /\ cachedAuth'.jwt \in Tokens
          /\ cachedAuth' = RecordOf(cachedAuth'.jwt)
          /\ cachedAuth'.expiresAt = lastOp'.sched
          /\ storage' = JSONStringify(cachedAuth')
          /\ store'.token = cachedAuth'.jwt
          /\ emitted' = <<TRUE>>
          /\ IF cachedAuth'.expiresAt - now > FiveMinutes
             THEN /\ timers' = {[id |-> refreshTimeout',
                                 due |-> cachedAuth'.expiresAt - FiveMinutes]}
                  /\ fetchCalls' = 0
             ELSE /\ timers' = {}
                  /\ fetchCalls' = 1]_vars

\* the refresh started by a session signal has succeeded where no record was
\* cached: the record is cached and stored, the timer armed, the token in the
\* store, and handleSessionChange is about to continue
C15_Witness ==
  /\ lastOp.op = "refreshSuccess"
  /\ ~lastOp.hadRecord
  /\ resume # Null
  /\ cachedAuth # Null
  /\ storage = JSONStringify(cachedAuth)
  /\ store.token = cachedAuth.jwt
  /\ timers # {}
  /\ emitted = <<TRUE>>

(***************************************************************************)
(* C16: whenever no operation of the manager is in the middle of running,  *)
(* the cached record in memory and the record stored under 'cached_auth'   *)
(* agree: both are absent, or both are the same {jwt, user, expiresAt}.  A *)
(* record comes into being only through a successful refresh, and goes     *)
(* away only through a definitive logout or through a load that finds it   *)
(* expired or unparsable.                                                  *)
(***************************************************************************)
MemoryAndStorageAgree ==
  IF cachedAuth = Null THEN storage = Absent
  ELSE /\ storage \notin {Absent, Garbage}
       /\ JSONParse(storage) = cachedAuth

C16_CacheMatchesStorage ==
  /\ []MemoryAndStorageAgree
  /\ [][/\ (cachedAuth' # cachedAuth /\ cachedAuth' # Null)
             => lastOp'.op = "refreshSuccess"
        /\ (storage' # storage /\ storage' # Absent)
             => lastOp'.op = "refreshSuccess"
        /\ (cachedAuth # Null /\ cachedAuth' = Null)
             => \/ lastOp'.op = "sessionLogout"
                \/ /\ lastOp'.op = "construct"
                   /\ cachedAuth.expiresAt <= now
        /\ (storage # Absent /\ storage' = Absent)
             => \/ lastOp'.op = "sessionLogout"
                \/ /\ lastOp'.op = "construct"
                   /\ storage = Garbage \/ JSONParse(storage).expiresAt <= now]_vars

\* a page reload has found the stored record expired and removed it: nothing
\* is cached, nothing is stored
C16_Witness ==
  /\ lastOp.op = "construct"
  /\ lastOp.hadRecord
  /\ cachedAuth = Null
  /\ storage = Absent
  /\ now > 0

(***************************************************************************)
(* C17: on construction, when storage holds under 'cached_auth' a record   *)
(* that is present and unexpired, the manager adopts it as the cached      *)
(* record and arms a refresh timer for (expiresAt - 5 minutes), and starts *)
(* no refresh at construction time.                                        *)
(***************************************************************************)
\* the construction that has just run found an unexpired record
LoadedUnexpired == lastOp.op = "construct" /\ lastOp.sched # NoSched

Adopted ==
  /\ cachedAuth # Null
  /\ cachedAuth.expiresAt = lastOp.sched
  /\ storage = JSONStringify(cachedAuth)

TimerArmedForExpiry ==
  /\ timers = {[id |-> refreshTimeout, due |-> lastOp.sched - FiveMinutes]}
  /\ fetchCalls = 0
  /\ inflight = EmptyBag

\* the claim as stated
C17_Original == LoadedUnexpired => (Adopted /\ TimerArmedForExpiry)

\* C17 as the code has it: the record is adopted; the timer is armed, and no
\* refresh started, only when the record has more than five minutes left;
\* otherwise no timer is armed and one refresh is started by the constructor
C17_LoadAdoptsAndSchedules ==
  LoadedUnexpired =>
    /\ Adopted
    /\ IF lastOp.sched - now > FiveMinutes
       THEN TimerArmedForExpiry
       ELSE /\ timers = {}
            /\ refreshTimeout = NoTimer
            /\ fetchCalls = 1
            /\ BagCardinality(inflight) = 1

\* a page load found a record with less than five minutes left: it is
\* adopted and a refresh is already in flight
C17_Witness ==
  /\ LoadedUnexpired
  /\ now > 0
  /\ lastOp.sched - now <= FiveMinutes
  /\ cachedAuth # Null
  /\ fetchCalls = 1
  /\ timers = {}

(***************************************************************************)
(* C18: when a definitive unauthenticated signal (session non-null, data   *)
(* null, isPending false) is processed, any pending refresh timer is       *)
(* cancelled, the store is logged out and its loading flag is false; and   *)
(* from then until a later session signal that carries a user, no refresh  *)
(* is started by a timer.                                                  *)
(***************************************************************************)
C18_LogoutStopsTimerRefresh ==
  [][/\ lastOp'.op = "sessionLogout" =>
          /\ timers' = {}
          /\ refreshTimeout' = NoTimer
          /\ store'.user = Null
          /\ store'.token = Null
          /\ ~store'.isAuthenticated
          /\ ~store'.isLoading
     /\ lastOp.sinceLogout => lastOp'.op # "timerFire"]_vars

(***************************************************************************)
(* C19: Access-Control-Allow-Methods follows the methods policy on every   *)
(* request: allow-all (true) echoes the Access-Control-Request-Method      *)
(* header on a preflight and the request's own method on an actual         *)
(* request; an explicit set puts the configured methods joined with ', '   *)
(* on every preflight and actual response; a disabled policy (false, null, *)
(* undefined, '') leaves the header out.                                   *)
(***************************************************************************)
AllowMethods == "access-control-allow-methods"
\* the wrapper answered the request itself
AnsweredAsPreflight == Responded /\ corsDownstream = Null
\* the method the response is about: the one asked for on a preflight, the
\* request's own otherwise
MethodAsked ==
  IF AnsweredAsPreflight
  THEN GetHeader(corsRequest, "access-control-request-method")
  ELSE [present |-> TRUE, value |-> corsRequest.method]
\* the configured methods as one string, when the policy is an explicit set
ExplicitMethods ==
  IF corsConfig.methods.kind = "list" THEN Join(corsConfig.methods.items)
  ELSE corsConfig.methods.s
MethodsExplicit ==
  \/ corsConfig.methods.kind = "list"
  \/ corsConfig.methods.kind = "string" /\ corsConfig.methods.s # ""

\* the claim as stated
C19_Original ==
  Responded =>
    /\ (corsConfig.methods.kind = "true" /\ MethodAsked.present)
         => HeaderIs(corsResponse.headers, AllowMethods, MethodAsked.value)
    /\ MethodsExplicit
         => HeaderIs(corsResponse.headers, AllowMethods, ExplicitMethods)
    /\ (corsConfig.methods.kind \in {"false", "null", "undefined"}
          \/ corsConfig.methods = [kind |-> "string", s |-> ""])
         => ~HasHeader(corsResponse.headers, AllowMethods)

\* C19 as the code has it: a preflight that names no method gets no
\* Access-Control-Allow-Methods whatever the policy; otherwise allow-all,
\* which is true or a policy left undefined, echoes the method, an explicit
\* set is emitted joined, and false, null and '' leave the header out
C19_AllowMethods ==
  Responded =>
    IF ~MethodAsked.present
    THEN ~HasHeader(corsResponse.headers, AllowMethods)
    ELSE /\ corsConfig.methods.kind \in {"true", "undefined"}
              => HeaderIs(corsResponse.headers, AllowMethods, MethodAsked.value)
         /\ MethodsExplicit
              => HeaderIs(corsResponse.headers, AllowMethods, ExplicitMethods)
         /\ (corsConfig.methods.kind \in {"false", "null"}
               \/ corsConfig.methods = [kind |-> "string", s |-> ""])
              => ~HasHeader(corsResponse.headers, AllowMethods)

\* a preflight without Access-Control-Request-Method was answered under an
\* explicit set of methods: the response carries no Access-Control-Allow-Methods
C19_Witness ==
  /\ AnsweredAsPreflight
  /\ corsConfig.methods.kind = "list"
  /\ ~MethodAsked.present
  /\ ~HasHeader(corsResponse.headers, AllowMethods)

(***************************************************************************)
(* C20: for allowedHeaders and exposeHeaders an explicit set is emitted as *)
(* its ', '-joined string, and allow-all (true) emits, on preflight and    *)
(* actual responses alike, the names of the headers present on the         *)
(* client's request, so that Access-Control-Allow-Headers and              *)
(* Access-Control-Expose-Headers depend on the request.                    *)
(***************************************************************************)
AllowHeaders == "access-control-allow-headers"
ExposeHeaders == "access-control-expose-headers"
\* the names of the headers on the request, in the order a Headers lists them
RequestHeaderNames ==
  Join(SelectSeq(HeaderOrder, LAMBDA name : HasHeader(corsRequest.headers, name)))
\* an explicit allowedHeaders / exposeHeaders policy as one string
ExplicitHeaders(v) == IF v.kind = "list" THEN Join(v.items) ELSE v.s

ExplicitHeadersEmitted ==
  /\ corsConfig.allowedHeaders.kind # "true"
       => HeaderIs(corsResponse.headers, AllowHeaders,
                   ExplicitHeaders(corsConfig.allowedHeaders))
  /\ corsConfig.exposeHeaders.kind # "true"
       => HeaderIs(corsResponse.headers, ExposeHeaders,
                   ExplicitHeaders(corsConfig.exposeHeaders))

ExposeAllEmitsNames ==
  corsConfig.exposeHeaders.kind = "true"
    => HeaderIs(corsResponse.headers, ExposeHeaders, RequestHeaderNames)

\* the claim as stated
C20_Original ==
  Responded =>
    /\ ExplicitHeadersEmitted
    /\ ExposeAllEmitsNames
    /\ corsConfig.allowedHeaders.kind = "true"
         => HeaderIs(corsResponse.headers, AllowHeaders, RequestHeaderNames)

\* C20 as the code has it: under allow-all, Access-Control-Allow-Headers on
\* a preflight is the value of the request's Access-Control-Request-Headers
\* header, and is left out when the request has none; everything else is as
\* claimed
C20_HeaderPolicies ==
  Responded =>
    /\ ExplicitHeadersEmitted
    /\ ExposeAllEmitsNames
    /\ corsConfig.allowedHeaders.kind = "true"
         => IF ~AnsweredAsPreflight
            THEN HeaderIs(corsResponse.headers, AllowHeaders, RequestHeaderNames)
            ELSE IF HasHeader(corsRequest.headers, "access-control-request-headers")
            THEN HeaderIs(corsResponse.headers, AllowHeaders,
                          corsRequest.headers["access-control-request-headers"])
            ELSE ~HasHeader(corsResponse.headers, AllowHeaders)

\* a preflight asking for x-token was answered under allow-all: the response
\* allows x-token, and exposes the names of the request's headers
C20_Witness ==
  /\ AnsweredAsPreflight
  /\ corsConfig.allowedHeaders.kind = "true"
  /\ HasHeader(corsRequest.headers, "origin")
  /\ HeaderIs(corsResponse.headers, AllowHeaders, "x-token")
  /\ HeaderIs(corsResponse.headers, ExposeHeaders,
              "access-control-request-headers, access-control-request-method, origin")

(***************************************************************************)
(* C21: when the credentials flag is true every response the wrapper       *)
(* produces, preflight or actual, carries Access-Control-Allow-Credentials *)
(* with the value 'true', whether the request's origin matched, did not    *)
(* match or was not sent; when the flag is false the middleware never adds *)
(* that header.                                                            *)
(***************************************************************************)
AllowCredentials == "access-control-allow-credentials"

C21_CredentialsUnconditional ==
  Responded =>
    IF corsConfig.credentials
    THEN HeaderIs(corsResponse.headers, AllowCredentials, "true")
    ELSE /\ HasHeader(corsResponse.headers, AllowCredentials)
              <=> HasHeader(BaseHeaders, AllowCredentials)
         /\ HasHeader(BaseHeaders, AllowCredentials)
              => corsResponse.headers[AllowCredentials] = BaseHeaders[AllowCredentials]

\* an actual request whose origin matched no rule was answered under a policy
\* with credentials: no Access-Control-Allow-Origin was added, yet the
\* credentials header is there
C21_Witness ==
  /\ Responded
  /\ corsDownstream # Null
  /\ corsConfig.credentials
  /\ corsConfig.origin.kind = "single"
  /\ HeaderIs(corsRequest.headers, "origin", "https://a.example")
  /\ HeaderIs(corsResponse.headers, "vary", "Origin")
  /\ ~HasHeader(corsResponse.headers, AllowOrigin)
  /\ HeaderIs(corsResponse.headers, AllowCredentials, "true")

(***************************************************************************)
(* C22: origin resolution has a fixed priority.  When the configured rule  *)
(* set contains the exact entry '*', at any position,                      *)
(* Access-Control-Allow-Origin is the static '*' for every request,        *)
(* whatever its Origin and whatever the other rules would match; otherwise *)
(* the rules are tried in list order and the first one that matches        *)
(* decides, the literal request origin being echoed.                       *)
(***************************************************************************)
\* the configured rules as they stand, for a policy that is not a boolean
ConfiguredRules ==
  LET o == WithLastIndex(corsConfig, regexLastIndex).origin
  IN IF o.kind = "list" THEN o.rules ELSE <<o.rule>>
\* what each kind of rule accepts: a string without '://' the origins that
\* contain it, a full origin itself, a pattern the origins its test passes, a
\* predicate the origins it returns true for
RuleAccepts(rule, o) ==
  CASE rule.kind = "string" -> IF Includes(rule.s, "://") THEN o = rule.s
                               ELSE Includes(o, rule.s)
    [] rule.kind = "regexp" -> RegExpTest(rule, o).result
    [] rule.kind = "function" -> o \in rule.accepts
HasWildcardEntry ==
  \E i \in 1..Len(ConfiguredRules) : ConfiguredRules[i] = [kind |-> "string", s |-> "*"]

\* every step that produces a response produces it from the rules as they
\* stood when the step began
C22_OriginPriority ==
  [][(Responded' /\ corsConfig.origin.kind # "bool") =>
       IF HasWildcardEntry
       THEN HeaderIs(corsResponse'.headers, AllowOrigin, "*")
       ELSE LET o == OriginOrEmpty(corsRequest')
            IN IF o # "" /\ \E i \in 1..Len(ConfiguredRules) :
                              RuleAccepts(ConfiguredRules[i], o)
               THEN HeaderIs(corsResponse'.headers, AllowOrigin, o)
               ELSE AllowOriginUntouched']_vars

\* under the rules <<'https://a.example', '*'>> a request from
\* https://a.example, which the first rule accepts, was answered with '*'
C22_Witness ==
  /\ Responded
  /\ corsConfig.origin.kind = "list"
  /\ Len(corsConfig.origin.rules) = 2
  /\ corsConfig.origin.rules[2] = [kind |-> "string", s |-> "*"]
  /\ HeaderIs(corsRequest.headers, "origin", "https://a.example")
  /\ HeaderIs(corsResponse.headers, AllowOrigin, "*")

(***************************************************************************)
(* C23: CORS evaluation is stateless and deterministic.  For a fixed       *)
(* policy, evaluating the same request again yields the same CORS headers, *)
(* whatever requests were evaluated in between and in whatever order: the  *)
(* response is the one the policy as constructed gives for the request.    *)
(* No evaluation changes the policy.                                       *)
(***************************************************************************)
C23_StatelessDeterministic ==
  /\ [](Responded =>
          corsResponse = IF corsDownstream = Null
                         THEN handlePreflight(corsConfig, corsRequest)
                         ELSE applyCorsHeaders(corsConfig, corsRequest, corsDownstream))
  /\ [][regexLastIndex' = regexLastIndex]_vars

(***************************************************************************)
(* C24: refreshes are not serialized.  A session signal that carries a     *)
(* user, or a timer that fires, starts a refreshAndCacheToken of its own   *)
(* also when a refresh is already in flight: the fetches in flight grow by *)
(* one, nothing is queued and nothing is rejected, so two refreshes can be *)
(* in flight at the same time.                                             *)
(***************************************************************************)
C24_RefreshesOverlap ==
  [][lastOp'.op \in {"sessionUser", "timerFire"} =>
       /\ fetchCalls' = 1
       /\ BagCardinality(inflight') = BagCardinality(inflight) + 1
       /\ \A r \in BagToSet(inflight) : CopiesIn(r, inflight') >= CopiesIn(r, inflight)]_vars

\* a session signal with a user has arrived while a refresh was in flight:
\* two are in flight now
C24_Witness ==
  /\ lastOp.op = "sessionUser"
  /\ fetchCalls = 1
  /\ BagCardinality(inflight) = 2

(***************************************************************************)
(* C25: logout is final for the cache.  Once a definitive logged-out       *)
(* signal has been processed, and until a later session signal carries a   *)
(* user, the cached record stays absent in memory and in storage, no       *)
(* refresh timer is armed and no 'auth:change' event with isAuthenticated  *)
(* true is emitted, also when a refresh was in flight at the moment of the *)
(* logout.                                                                 *)
(***************************************************************************)
C25_LogoutFinalForCache ==
  lastOp.sinceLogout =>
    /\ cachedAuth = Null
    /\ storage = Absent
    /\ timers = {}
    /\ \A i \in 1..Len(emitted) : ~emitted[i]

(***************************************************************************)
(* C26: logout is final for the store.  When the latest session signal     *)
(* delivered is a definitive logged-out signal and every handleSessionChange *)
(* invocation has completed, the store is not authenticated and holds no   *)
(* user, also when the handler of an earlier signal with a user was still  *)
(* awaiting its refresh when the logout arrived.                           *)
(***************************************************************************)
\* no handleSessionChange invocation is suspended or about to continue
HandlersCompleted ==
  /\ resume = Null
  /\ \A r \in BagToSet(inflight) : r.origin # "session"

C26_LogoutFinalForStore ==
  (lastOp.logoutLast /\ HandlersCompleted) =>
    /\ ~store.isAuthenticated
    /\ store.user = Null

(***************************************************************************)
(* C27: whenever handleSessionChange has marked the store authenticated    *)
(* (setAuthenticated(true)), a bearer token is available: getAuthToken()   *)
(* returns a token and a cached record exists, also when the refresh the   *)
(* handler awaited has failed.                                             *)
(***************************************************************************)
C27_AuthenticatedHasToken ==
  lastOp.op = "handlerResume" =>
    /\ store.isAuthenticated
    /\ getAuthToken(World) # Null
    /\ cachedAuth # Null

(***************************************************************************)
(* C28: immediate refresh terminates.  Every chain of refreshes begun by a *)
(* scheduleTokenRefresh call whose delay is not positive                   *)
(* (scheduleTokenRefresh -> refreshAndCacheToken -> scheduleTokenRefresh   *)
(* ...) is finite and ends with a timer armed or with a failed refresh,    *)
(* for every token the endpoint may return, also for tokens with five      *)
(* minutes or less left.  Checked where every fetch settles.               *)
(***************************************************************************)
\* scheduleTokenRefresh in isolation, every fetch in flight settling in the end
SpecImmediate ==
  Init /\ [][NextSchedule]_vars /\ WF_vars(RefreshSucceeds \/ RefreshFails)

\* a refresh started by scheduleTokenRefresh itself is in flight
ChainRunning == \E r \in BagToSet(inflight) : r.origin = "schedule"

C28_ImmediateRefreshTerminates ==
  ChainRunning ~> (timers # {} \/ lastOp.op = "refreshFailure")

(***************************************************************************)
(* C29: while a cached record exists a refresh is always pending: in every *)
(* reachable state with a cached record either a refresh timer is armed or *)
(* a refresh is in flight, so that a cached record is never left to expire *)
(* without a further refresh attempt, also after a refresh started by the  *)
(* timer has failed.                                                       *)
(***************************************************************************)
C29_RefreshAlwaysPending ==
  cachedAuth # Null => (timers # {} \/ inflight # EmptyBag)

(***************************************************************************)
(* C30: the armed timer always belongs to the current record: in every     *)
(* reachable state where a refresh timer is live a cached record exists    *)
(* and the timer is due at that record's expiresAt minus five minutes,     *)
(* also after two overlapping refreshes have completed in either order;    *)
(* the record, the storage entry and the timer all come from the refresh   *)
(* that completed last.                                                    *)
(***************************************************************************)
C30_TimerBelongsToRecord ==
  /\ [](\A x \in timers :
          /\ cachedAuth # Null
          /\ x.due = cachedAuth.expiresAt - FiveMinutes
          /\ storage = JSONStringify(cachedAuth))
  /\ [][lastOp'.op = "refreshSuccess" =>
          /\ cachedAuth'.expiresAt = lastOp'.sched
          /\ storage' = JSONStringify(cachedAuth')
          /\ \A x \in timers' : x.due = lastOp'.sched - FiveMinutes]_vars

\* two refreshes were in flight together; the second of them has completed
\* after the first had cached a record, and the timer is the one it armed
C30_Witness ==
  /\ lastOp.op = "refreshSuccess"
  /\ lastOp.hadRecord
  /\ inflight = EmptyBag
  /\ fetchCalls = 0
  /\ timers = {[id |-> refreshTimeout, due |-> lastOp.sched - FiveMinutes]}
  /\ cachedAuth.expiresAt = lastOp.sched
  /\ refreshTimeout > 1

=============================================================================
